---- MODULE Spec2Model ----
(***************************************************************************)
(* Model of fetch_store_news.py: loading of analyst.csv, the helper        *)
(* functions clean_summary and is_recent, the per-store fetch loop, the    *)
(* grouping by analyst and the console / CSV / JSON outputs.               *)
(*                                                                         *)
(* A Python string is modelled as a sequence of one-character strings, so  *)
(* that stripping, entity decoding, tag removal, date formatting, date     *)
(* parsing and the lexical comparisons of str are computed character by    *)
(* character.  Dates are days of November 2026 (1 November 2026 is a       *)
(* Sunday).                                                                *)
(***************************************************************************)
EXTENDS Integers, Sequences, FiniteSets, TLC

VARIABLES
  file,             \* analyst.csv as found on disk (environment)
  stores,           \* list of store names
  analyst_map,      \* dict store -> analyst
  today,            \* what date.today() returns now
  ticks,            \* midnights passed since the start of the run
  pc,               \* position of the script
  idx,              \* index in stores of the store being processed
  results_open,     \* results_open of the current iteration
  results_close,    \* results_close of the current iteration
  analyst_results,  \* defaultdict(list), in insertion order: <<[key, items]>>
  found_any,        \* found_any
  trace,            \* history: the fetches issued and the delays slept
  console,          \* history: what the report printed
  csv_file,         \* store_open_close_news_<date>.csv, or NoFile
  latest_json,      \* latest_news.json, or NoFile
  archive_json,     \* latest_news_<date>.json, or NoFile
  call,             \* a direct call of a helper function: its arguments
  ret               \* ... and what it returned

vars == <<file, stores, analyst_map, today, ticks, pc, idx, results_open,
          results_close, analyst_results, found_any, trace, console,
          csv_file, latest_json, archive_json, call, ret>>

(***************************************************************************)
(* Bounds of the model.                                                    *)
(***************************************************************************)
Day0 == 6          \* the run starts on 6 November 2026
PubWindow == 2     \* feed entries are dated Day0 - PubWindow .. Day0
MaxEntries == 3    \* entries the feeds return during one run
MaxTicks == 1      \* midnights that may pass during a run
NDefault == 1      \* how many of the default stores are scanned
MaxRows == 2       \* rows of analyst.csv
MaxFrags == 3      \* fragments a raw summary is made of

(***************************************************************************)
(* Strings.                                                                *)
(***************************************************************************)
\* Python's None; no character string equals it.
None == <<"None">>
\* pandas' missing value (an empty cell as read by read_csv).
NaN == <<"NaN">>
\* U+00A0, what &nbsp; decodes to.
NBSP == "xa0"

Max(S) == CHOOSE x \in S : \A y \in S : y <= x
Min(S) == CHOOSE x \in S : \A y \in S : x <= y

\* The characters used, in code point order.
ASCII ==
  <<" ", "&", "'", ",", "-", "0", "1", "2", "3", "4", "5", "6", "7", "8", "9",
    ":", ";", "<", ">",
    "A", "B", "C", "D", "E", "F", "G", "H", "I", "J", "K", "L", "M", "N",
    "O", "P", "Q", "R", "S", "T", "U", "V", "W", "X", "Y", "Z",
    "a", "b", "c", "d", "e", "f", "g", "h", "i", "j", "k", "l", "m", "n",
    "o", "p", "q", "r", "s", "t", "u", "v", "w", "x", "y", "z", NBSP>>

Ord(c) == CHOOSE i \in 1..Len(ASCII) : ASCII[i] = c

\* a < b on str: lexicographic by code point.
RECURSIVE StrLess(_, _)
StrLess(a, b) ==
  IF b = <<>> THEN FALSE
  ELSE IF a = <<>> THEN TRUE
  ELSE IF Head(a) = Head(b) THEN StrLess(Tail(a), Tail(b))
  ELSE Ord(Head(a)) < Ord(Head(b))

\* str.isspace for one character.
IsSpace(c) == c \in {" ", NBSP}

RECURSIVE LStrip(_)
LStrip(s) == IF s # <<>> /\ IsSpace(Head(s)) THEN LStrip(Tail(s)) ELSE s

RECURSIVE RStrip(_)
RStrip(s) ==
  IF s # <<>> /\ IsSpace(s[Len(s)]) THEN RStrip(SubSeq(s, 1, Len(s) - 1)) ELSE s

\* str.strip()
Strip(s) == RStrip(LStrip(s))

\* Does t occur in s at position i ?
StartsAt(s, i, t) ==
  /\ i >= 1
  /\ i + Len(t) - 1 <= Len(s)
  /\ SubSeq(s, i, i + Len(t) - 1) = t

(***************************************************************************)
(* Dates: strftime, the feed's RFC-822 timestamps, dateutil's parse.       *)
(***************************************************************************)
Digits == <<"0", "1", "2", "3", "4", "5", "6", "7", "8", "9">>
IsDigit(c) == \E i \in 1..10 : Digits[i] = c
DigitVal(c) == (CHOOSE i \in 1..10 : Digits[i] = c) - 1
TwoDigits(n) == <<Digits[(n \div 10) + 1], Digits[(n % 10) + 1]>>

WeekdayNames ==
  << <<"S", "u", "n">>, <<"M", "o", "n">>, <<"T", "u", "e">>,
     <<"W", "e", "d">>, <<"T", "h", "u">>, <<"F", "r", "i">>,
     <<"S", "a", "t">> >>
WeekdayName(d) == WeekdayNames[((d - 1) % 7) + 1]

IsoHead == <<"2", "0", "2", "6", "-", "1", "1", "-">>
RfcTail ==
  <<" ", "N", "o", "v", " ", "2", "0", "2", "6", " ",
    "1", "2", ":", "0", "0", ":", "0", "0", " ", "G", "M", "T">>

\* d.strftime('%Y-%m-%d')
StrfDate(d) == IsoHead \o TwoDigits(d)
\* the <pubDate> of a feed entry published on day d: "Fri, 06 Nov 2026 12:00:00 GMT"
Rfc822(d) == WeekdayName(d) \o <<",", " ">> \o TwoDigits(d) \o RfcTail

Returned(v) == [raised |-> FALSE, value |-> v]
Raised == [raised |-> TRUE, value |-> None]

DayOfDigits(a, b) == 10 * DigitVal(a) + DigitVal(b)
ValidDay(n) == n \in 1..30

\* date_parser.parse(s).date(): the day, or ParserError.  The name of the
\* weekday is skipped, not checked against the date.
date_parse(s) ==
  IF /\ Len(s) = 7 + Len(RfcTail)
     /\ \E i \in 1..7 : SubSeq(s, 1, 3) = WeekdayNames[i]
     /\ s[4] = "," /\ s[5] = " "
     /\ IsDigit(s[6]) /\ IsDigit(s[7])
     /\ SubSeq(s, 8, Len(s)) = RfcTail
     /\ ValidDay(DayOfDigits(s[6], s[7]))
  THEN Returned(DayOfDigits(s[6], s[7]))
  ELSE IF /\ Len(s) = Len(IsoHead) + 2
          /\ SubSeq(s, 1, Len(IsoHead)) = IsoHead
          /\ IsDigit(s[9]) /\ IsDigit(s[10])
          /\ ValidDay(DayOfDigits(s[9], s[10]))
  THEN Returned(DayOfDigits(s[9], s[10]))
  ELSE Raised

DateNotAvailable ==
  <<"D", "a", "t", "e", " ", "n", "o", "t", " ",
    "a", "v", "a", "i", "l", "a", "b", "l", "e">>

is_recent_strict(published_str, cutoff_date) ==
  IF published_str = None \/ published_str = <<>>
     \/ published_str = DateNotAvailable
  THEN Returned(FALSE)
  ELSE LET pub_date == date_parse(published_str) IN
       IF pub_date.raised THEN Returned(FALSE)
       ELSE Returned(pub_date.value > cutoff_date)

is_recent(published_str, cutoff_date) ==
  IF published_str = None \/ published_str = <<>>
     \/ published_str = DateNotAvailable
  THEN Returned(FALSE)
  ELSE LET pub_date == date_parse(published_str) IN
       IF pub_date.raised THEN Returned(FALSE)      \* except: return False
       ELSE Returned(pub_date.value >= cutoff_date)

(***************************************************************************)
(* clean_summary: html.unescape, _TAG_RE.sub, " ".join(text.split()).      *)
(***************************************************************************)
NoSummary == <<"N", "o", " ", "s", "u", "m", "m", "a", "r", "y">>

E_amp == <<"a", "m", "p">>
E_lt == <<"l", "t">>
E_gt == <<"g", "t">>
E_nbsp == <<"n", "b", "s", "p">>

\* html.entities.html5, the part used here: each name with and without ';'.
Html5Names ==
  {E_amp, E_lt, E_gt, E_nbsp,
   E_amp \o <<";">>, E_lt \o <<";">>, E_gt \o <<";">>, E_nbsp \o <<";">>}
Html5(n) ==
  IF n \in {E_amp, E_amp \o <<";">>} THEN "&"
  ELSE IF n \in {E_lt, E_lt \o <<";">>} THEN "<"
  ELSE IF n \in {E_gt, E_gt \o <<";">>} THEN ">"
  ELSE NBSP

\* [^\t\n\f <&#;] of html's charref pattern
NameChar(c) == c \notin {" ", "<", "&", "#", ";"}

RECURSIVE NameRun(_)
\* length of the run of name characters s starts with (at most 32)
NameRun(s) ==
  IF s = <<>> \/ ~NameChar(Head(s)) THEN 0
  ELSE LET n == 1 + NameRun(Tail(s)) IN IF n > 32 THEN 32 ELSE n

\* html._replace_charref for a named reference s (the text after '&')
ReplaceCharref(s) ==
  IF s \in Html5Names THEN <<Html5(s)>>
  ELSE LET xs == {x \in 2..(Len(s) - 1) : SubSeq(s, 1, x) \in Html5Names} IN
       IF xs # {}
       THEN <<Html5(SubSeq(s, 1, Max(xs)))>> \o SubSeq(s, Max(xs) + 1, Len(s))
       ELSE <<"&">> \o s

RECURSIVE unescape(_)
\* html.unescape: one pass, what a reference decodes to is not scanned again
unescape(s) ==
  IF s = <<>> THEN <<>>
  ELSE IF Head(s) # "&" THEN <<Head(s)>> \o unescape(Tail(s))
  ELSE LET rest == Tail(s)
           n == NameRun(rest)
       IN IF n = 0 THEN <<"&">> \o unescape(rest)
          ELSE LET glen == IF n < Len(rest) /\ rest[n + 1] = ";"
                           THEN n + 1 ELSE n
               IN ReplaceCharref(SubSeq(rest, 1, glen))
                    \o unescape(SubSeq(rest, glen + 1, Len(rest)))

RECURSIVE StripTags(_)
\* _TAG_RE.sub("", s) with _TAG_RE = <[^>]+>
StripTags(s) ==
  IF s = <<>> THEN <<>>
  ELSE LET closers == {j \in 2..Len(s) : s[j] = ">"} IN
       IF Head(s) = "<" /\ closers # {} /\ Min(closers) >= 3
       THEN StripTags(SubSeq(s, Min(closers) + 1, Len(s)))
       ELSE <<Head(s)>> \o StripTags(Tail(s))

RECURSIVE WordLen(_)
WordLen(s) == IF s = <<>> \/ IsSpace(Head(s)) THEN 0 ELSE 1 + WordLen(Tail(s))

RECURSIVE JoinSplit(_)
\* " ".join(s.split())
JoinSplit(s) ==
  LET t == LStrip(s) IN
  IF t = <<>> THEN <<>>
  ELSE LET w == WordLen(t)
           rest == JoinSplit(SubSeq(t, w + 1, Len(t)))
       IN IF rest = <<>> THEN SubSeq(t, 1, w)
          ELSE SubSeq(t, 1, w) \o <<" ">> \o rest

clean_summary_no_unescape(summary) ==
  IF summary = None \/ summary = <<>> THEN NoSummary
  ELSE LET text == JoinSplit(StripTags(summary)) IN
       IF text = <<>> THEN NoSummary ELSE text

clean_summary(summary) ==
  IF summary = None \/ summary = <<>> THEN NoSummary
  ELSE LET text == JoinSplit(StripTags(unescape(summary))) IN
       IF text = <<>> THEN NoSummary ELSE text

(***************************************************************************)
(* Loading of analyst.csv (lines 16-59).                                   *)
(***************************************************************************)
Unassigned == <<"U", "n", "a", "s", "s", "i", "g", "n", "e", "d">>
S_nan == <<"n", "a", "n">>

default_stores_all ==
  << <<"D", "o", "g", "g", "i", "e", " ", "S", "t", "y", "l", "e">>,
     <<"D", "o", "g", "t", "o", "p", "i", "a">>,
     <<"E", "a", "r", "t", "h", "w", "i", "s", "e", " ", "P", "e", "t">>,
     <<"F", "e", "e", "d", "e", "r", "s", " ", "S", "u", "p", "p", "l", "y">>,
     <<"F", "r", "i", "e", "n", "d", "l", "y", " ", "P", "e", "t", "s">>,
     <<"H", "o", "l", "l", "y", "w", "o", "o", "d", " ", "F", "e", "e", "d">>,
     <<"K", "a", "h", "o", "o", "t", "s", " ", "P", "e", "t", " ", "P", "r",
       "o", "d", "u", "c", "t", "s">>,
     <<"K", "r", "i", "s", "e", "r", "'", "s">>,
     <<"M", "u", "d", " ", "B", "a", "y">>,
     <<"P", "e", "t", " ", "C", "l", "u", "b", " ", "F", "o", "o", "d", " ",
       "a", "n", "d", " ", "S", "u", "p", "p", "l", "i", "e", "s">>,
     <<"P", "e", "t", " ", "D", "e", "p", "o", "t">>,
     <<"P", "e", "t", " ", "E", "v", "o", "l", "u", "t", "i", "o", "n">> >>

\* The default list, cut to its first NDefault stores.
default_stores ==
  SubSeq(default_stores_all, 1,
         IF NDefault < Len(default_stores_all) THEN NDefault
         ELSE Len(default_stores_all))

Range(s) == {s[i] : i \in DOMAIN s}

\* pd.read_csv: an empty field is read as the missing value
ReadCell(text) == IF text = <<>> THEN NaN ELSE text
\* Series.astype(str): the missing value becomes the string 'nan'
AsTypeStr(v) == IF v = NaN THEN S_nan ELSE v
\* Series.str.strip(): a missing value stays missing
StrStrip(v) == IF v = NaN THEN NaN ELSE Strip(v)

\* lines 34-35 for one row
CleanRow(row) ==
  [Store |-> StrStrip(AsTypeStr(ReadCell(row.Store))),
   Analyst |-> StrStrip(AsTypeStr(ReadCell(row.Analyst)))]

\* df.dropna(subset=['Store']) keeps the rows r with
StoreNotNa(r) == r.Store # NaN
\* df[df['Store'].str.len() > 0] keeps the rows r with
StoreNotEmpty(r) == Len(r.Store) > 0

\* dict(zip(keys, values)): a later pair replaces an earlier one
DictOfZip(keys, values) ==
  [k \in Range(keys) |-> values[Max({i \in DOMAIN keys : keys[i] = k})]]

\* lines 53-54 and 58-59
Fallback ==
  [stores |-> default_stores,
   analyst_map |-> [s \in Range(default_stores) |-> Unassigned]]

\* lines 30-59: stores and analyst_map after loading file f
LoadCsv(f) ==
  IF f.kind = "missing" THEN Fallback
  ELSE IF f.kind = "unreadable" \/ ~f.hasStore \/ ~f.hasAnalyst
  THEN Fallback                                \* except Exception
  ELSE LET df1 == [i \in DOMAIN f.rows |-> CleanRow(f.rows[i])]
           df2 == SelectSeq(df1, StoreNotNa)
           df3 == SelectSeq(df2, StoreNotEmpty)
           st == [i \in DOMAIN df3 |-> df3[i].Store]
           an == [i \in DOMAIN df3 |-> df3[i].Analyst]
       IN [stores |-> st, analyst_map |-> DictOfZip(st, an)]

(***************************************************************************)
(* analyst.csv files.                                                      *)
(***************************************************************************)
S_Acme == <<"A", "c", "m", "e">>
S_Beta == <<"B", "e", "t", "a">>
S_Zoe == <<"Z", "o", "e">>
S_Amy == <<"A", "m", "y">>

MissingFile == [kind |-> "missing", hasStore |-> FALSE, hasAnalyst |-> FALSE,
                rows |-> <<>>]
UnreadableFile == [kind |-> "unreadable", hasStore |-> FALSE,
                   hasAnalyst |-> FALSE, rows |-> <<>>]
Table(rows) == [kind |-> "table", hasStore |-> TRUE, hasAnalyst |-> TRUE,
                rows |-> rows]

StoreCells == {<<>>, <<" ", " ">>, <<" ">> \o S_Acme \o <<" ">>, S_Beta}
AnalystCells == {<<>>, <<" ">>, <<" ">> \o S_Zoe, S_Amy}
RowSeqs ==
  UNION {[1..n -> [Store : StoreCells, Analyst : AnalystCells]] :
           n \in 0..MaxRows}

\* The files the loading is checked on.
AllFiles ==
  {MissingFile, UnreadableFile}
    \cup {Table(rows) : rows \in RowSeqs}
    \cup {[Table(rows) EXCEPT !.hasStore = FALSE] : rows \in RowSeqs}
    \cup {[Table(rows) EXCEPT !.hasAnalyst = FALSE] : rows \in RowSeqs}

\* The files the whole run is checked on.
MainFiles ==
  {MissingFile,
   Table(<< [Store |-> <<" ">> \o S_Beta, Analyst |-> S_Zoe \o <<" ">>],
            [Store |-> S_Acme, Analyst |-> S_Amy] >>),
   Table(<< [Store |-> S_Acme, Analyst |-> <<>>] >>)}

(***************************************************************************)
(* The news feed (environment).                                            *)
(***************************************************************************)
PubDays == (Day0 - PubWindow)..Day0

S_soon == <<"s", "o", "o", "n">>
RawHtml == <<"<", "b", ">", "n", "e", "w", "<", "/", "b", ">", " ",
             "&", "a", "m", "p", ";", " ", "x">>

\* The entries a feed may hold: one without <pubDate> and without summary,
\* one with a date that does not parse, and one per day of PubDays.
FeedEntries ==
  {[title |-> <<"n", "d">>, link |-> <<"u", "0">>, published |-> None,
    summary |-> None],
   [title |-> <<"b", "d">>, link |-> <<"u", "1">>, published |-> S_soon,
    summary |-> RawHtml]}
    \cup {[title |-> <<"n">> \o TwoDigits(d), link |-> <<"u">> \o TwoDigits(d),
           published |-> Rfc822(d),
           summary |-> IF d % 2 = 0 THEN RawHtml ELSE None] : d \in PubDays}

\* The feeds of at most n entries.
Feeds(n) == UNION {[1..k -> FeedEntries] : k \in 0..n}

(***************************************************************************)
(* build_query, fetch_news_for_store (lines 92-143).                       *)
(***************************************************************************)
QueryDays == 4
CutoffDays == 2

\* build_query: the parts of the query that vary.
build_query(store, is_closure) ==
  [store |-> store,
   keywords |-> IF is_closure THEN "base_keywords_close"
                ELSE "base_keywords_open",
   after |-> StrfDate(today - QueryDays)]

\* entry.get(key, default)
EntryGet(v, default) == IF v = None THEN default ELSE v

\* the dict appended at lines 133-140
NewsEvent(entry, is_closure) ==
  [title |-> entry.title,
   link |-> entry.link,
   published |-> EntryGet(entry.published, DateNotAvailable),
   summary |-> clean_summary(EntryGet(entry.summary, NoSummary)),
   type |-> IF is_closure THEN "Closing" ELSE "Opening"]

RECURSIVE InsertDesc(_, _)
\* x put behind the elements whose key is not less than its own
InsertDesc(sorted, x) ==
  IF sorted = <<>> THEN <<x>>
  ELSE IF StrLess(Head(sorted).published, x.published) THEN <<x>> \o sorted
  ELSE <<Head(sorted)>> \o InsertDesc(Tail(sorted), x)

RECURSIVE SortInto(_, _)
SortInto(sorted, rest) ==
  IF rest = <<>> THEN sorted
  ELSE SortInto(InsertDesc(sorted, Head(rest)), Tail(rest))

\* results.sort(key=lambda x: x['published'], reverse=True): stable
SortByPublishedDesc(results) == SortInto(<<>>, results)

RECURSIVE RecentEvents(_, _, _)
\* the loop of lines 129-140
RecentEvents(entries, cutoff_date, is_closure) ==
  IF entries = <<>> THEN <<>>
  ELSE LET entry == Head(entries)
           published_str == EntryGet(entry.published, DateNotAvailable)
           more == RecentEvents(Tail(entries), cutoff_date, is_closure)
       IN IF is_recent(published_str, cutoff_date).value
          THEN <<NewsEvent(entry, is_closure)>> \o more
          ELSE more

\* fetch_news_for_store, feed being what feedparser.parse returned
fetch_news_for_store(feed, is_closure) ==
  SortByPublishedDesc(RecentEvents(feed, today - CutoffDays, is_closure))

(***************************************************************************)
(* The main loop (lines 148-177).                                          *)
(***************************************************************************)
FileName(prefix, date) == [prefix |-> prefix, date |-> date]
NoFile == [name |-> FileName("none", <<>>)]
NoCall == [fn |-> "none"]
NoRet == [raised |-> FALSE, value |-> None]

AnalystForNobody(store) == Unassigned

\* analyst_map.get(store, "Unassigned")
AnalystFor(store) ==
  IF store \in DOMAIN analyst_map THEN analyst_map[store] ELSE Unassigned

\* the dict appended at lines 167-175
ReportEntry(store, analyst, res) ==
  [Store |-> store, Analyst |-> analyst, Type |-> res.type,
   Title |-> res.title, Link |-> res.link, Published |-> res.published,
   Summary |-> res.summary]

\* analyst_results[analyst].append(e) for each e of items: a new key is
\* inserted behind the keys there are
DictExtend(d, key, items) ==
  IF \E i \in DOMAIN d : d[i].key = key
  THEN [i \in DOMAIN d |->
          IF d[i].key = key THEN [d[i] EXCEPT !.items = @ \o items] ELSE d[i]]
  ELSE Append(d, [key |-> key, items |-> items])

\* A fetch as the history records it: whom the query asks about, how many
\* entries the feed returned and how many of them the call kept.
FetchEvent(query, feed, results) ==
  [ev |-> "fetch", store |-> query.store, keywords |-> query.keywords,
   entries |-> Len(feed), n |-> Len(results)]
SleepEvent ==
  [ev |-> "sleep", store |-> <<>>, keywords |-> "", entries |-> 0, n |-> 0]

RECURSIVE Fetched(_)
\* How many entries the feeds have returned along trace t.
Fetched(t) == IF t = <<>> THEN 0 ELSE Head(t).entries + Fetched(Tail(t))

\* lines 25-59 and 148-152
LoadAnalysts ==
  /\ pc = "load"
  /\ stores' = LoadCsv(file).stores
  /\ analyst_map' = LoadCsv(file).analyst_map
  /\ console' = Append(console, [kind |-> "run_date", text |-> StrfDate(today), n |-> 0])
  /\ idx' = 1
  /\ pc' = IF LoadCsv(file).stores = <<>> THEN "output" ELSE "open"
  /\ UNCHANGED <<file, today, ticks, results_open, results_close,
                 analyst_results, found_any, trace, csv_file, latest_json,
                 archive_json, call, ret>>

\* line 159
FetchOpen ==
  /\ pc = "open"
  /\ \E feed \in Feeds(MaxEntries - Fetched(trace)) :
       LET results == fetch_news_for_store(feed, FALSE) IN
       /\ results_open' = results
       /\ trace' = Append(trace, FetchEvent(build_query(stores[idx], FALSE),
                                            feed, results))
  /\ pc' = "close"
  /\ UNCHANGED <<file, stores, analyst_map, today, ticks, idx, results_close,
                 analyst_results, found_any, console, csv_file, latest_json,
                 archive_json, call, ret>>

\* line 160
FetchClose ==
  /\ pc = "close"
  /\ \E feed \in Feeds(MaxEntries - Fetched(trace)) :
       LET results == fetch_news_for_store(feed, TRUE) IN
       /\ results_close' = results
       /\ trace' = Append(trace, FetchEvent(build_query(stores[idx], TRUE),
                                            feed, results))
  /\ pc' = "group"
  /\ UNCHANGED <<file, stores, analyst_map, today, ticks, idx, results_open,
                 analyst_results, found_any, console, csv_file, latest_json,
                 archive_json, call, ret>>

GroupOpenOnly ==
  /\ pc = "group"
  /\ LET store == stores[idx]
         analyst == AnalystFor(store)
         all_results == results_open \o results_close
     IN IF results_open # <<>>
        THEN /\ found_any' = TRUE
             /\ analyst_results' =
                  DictExtend(analyst_results, analyst,
                             [i \in DOMAIN all_results |->
                                ReportEntry(store, analyst, all_results[i])])
        ELSE UNCHANGED <<found_any, analyst_results>>
  /\ trace' = Append(trace, SleepEvent)
  /\ results_open' = <<>>
  /\ results_close' = <<>>
  /\ idx' = idx + 1
  /\ pc' = IF idx = Len(stores) THEN "output" ELSE "open"
  /\ UNCHANGED <<file, stores, analyst_map, today, ticks, console, csv_file,
                 latest_json, archive_json, call, ret>>

GroupNoSleep ==
  /\ pc = "group"
  /\ LET store == stores[idx]
         analyst == AnalystFor(store)
         all_results == results_open \o results_close
     IN IF all_results # <<>>
        THEN /\ found_any' = TRUE
             /\ analyst_results' =
                  DictExtend(analyst_results, analyst,
                             [i \in DOMAIN all_results |->
                                ReportEntry(store, analyst, all_results[i])])
             /\ trace' = Append(trace, SleepEvent)
        ELSE UNCHANGED <<found_any, analyst_results, trace>>
  /\ results_open' = <<>>
  /\ results_close' = <<>>
  /\ idx' = idx + 1
  /\ pc' = IF idx = Len(stores) THEN "output" ELSE "open"
  /\ UNCHANGED <<file, stores, analyst_map, today, ticks, console, csv_file,
                 latest_json, archive_json, call, ret>>

\* lines 156 and 162-177: the grouping of the store's results and the delay
GroupAndSleep ==
  /\ pc = "group"
  /\ LET store == stores[idx]
         analyst == AnalystFor(store)
         all_results == results_open \o results_close
     IN IF all_results # <<>>
        THEN /\ found_any' = TRUE
             /\ analyst_results' =
                  DictExtend(analyst_results, analyst,
                             [i \in DOMAIN all_results |->
                                ReportEntry(store, analyst, all_results[i])])
        ELSE UNCHANGED <<found_any, analyst_results>>
  /\ trace' = Append(trace, SleepEvent)          \* time.sleep(1.3)
  /\ results_open' = <<>>
  /\ results_close' = <<>>
  /\ idx' = idx + 1
  /\ pc' = IF idx = Len(stores) THEN "output" ELSE "open"
  /\ UNCHANGED <<file, stores, analyst_map, today, ticks, console, csv_file,
                 latest_json, archive_json, call, ret>>

(***************************************************************************)
(* Output (lines 182-242).                                                 *)
(***************************************************************************)
RECURSIVE InsertAsc(_, _)
InsertAsc(sorted, x) ==
  IF sorted = <<>> THEN <<x>>
  ELSE IF StrLess(x.key, Head(sorted).key) THEN <<x>> \o sorted
  ELSE <<Head(sorted)>> \o InsertAsc(Tail(sorted), x)

RECURSIVE SortKeysInto(_, _)
SortKeysInto(sorted, rest) ==
  IF rest = <<>> THEN sorted
  ELSE SortKeysInto(InsertAsc(sorted, Head(rest)), Tail(rest))

\* sorted(d.items()): the keys differ, so the items are never compared
SortedItems(d) == SortKeysInto(<<>>, d)

RECURSIVE Flatten(_)
\* all_rows of lines 204-206: the lists of d.values(), one after the other
Flatten(d) == IF d = <<>> THEN <<>> ELSE Head(d).items \o Flatten(Tail(d))

\* the header line 190 prints for an analyst, and the items below it
ReportBlock(item) ==
  [kind |-> "analyst", text |-> item.key, n |-> Len(item.items)]

CsvName(d) == FileName("store_open_close_news_", StrfDate(d))
ArchiveName(d) == FileName("latest_news_", StrfDate(d))
LatestName == FileName("latest_news", <<>>)

\* lines 182-214: the console report and the CSV file
Output ==
  /\ pc = "output"
  /\ IF ~found_any
     THEN /\ console' = Append(console, [kind |-> "no_news", text |-> <<>>, n |-> 0])
          /\ UNCHANGED csv_file
     ELSE /\ console' =
               console \o [i \in DOMAIN analyst_results |->
                             ReportBlock(SortedItems(analyst_results)[i])]
          /\ LET all_rows == Flatten(analyst_results) IN
             IF all_rows # <<>>
             THEN csv_file' = [name |-> CsvName(today), rows |-> all_rows]
             ELSE UNCHANGED csv_file
  /\ pc' = "json"
  /\ UNCHANGED <<file, stores, analyst_map, today, ticks, idx, results_open,
                 results_close, analyst_results, found_any, trace,
                 latest_json, archive_json, call, ret>>

SnapshotOf(d) == [last_updated |-> StrfDate(today), data |-> SortedItems(d)]

WriteSnapshotIfAny ==
  /\ pc = "json"
  /\ IF found_any
     THEN /\ latest_json' = [name |-> LatestName,
                             content |-> SnapshotOf(analyst_results)]
          /\ archive_json' = [name |-> ArchiveName(today),
                              content |-> SnapshotOf(analyst_results)]
     ELSE UNCHANGED <<latest_json, archive_json>>
  /\ pc' = "done"
  /\ UNCHANGED <<file, stores, analyst_map, today, ticks, idx, results_open,
                 results_close, analyst_results, found_any, trace, console,
                 csv_file, call, ret>>

\* lines 220-242: latest_news.json and its date-stamped copy
WriteSnapshot ==
  /\ pc = "json"
  /\ latest_json' = [name |-> LatestName,
                     content |-> SnapshotOf(analyst_results)]
  /\ archive_json' = [name |-> ArchiveName(today),
                      content |-> SnapshotOf(analyst_results)]
  /\ pc' = "done"
  /\ UNCHANGED <<file, stores, analyst_map, today, ticks, idx, results_open,
                 results_close, analyst_results, found_any, trace, console,
                 csv_file, call, ret>>

\* Midnight passes while the script runs.
Tick ==
  /\ pc \in {"open", "close", "group", "output", "json"}
  /\ ticks < MaxTicks
  /\ today' = today + 1
  /\ ticks' = ticks + 1
  /\ UNCHANGED <<file, stores, analyst_map, pc, idx, results_open,
                 results_close, analyst_results, found_any, trace, console,
                 csv_file, latest_json, archive_json, call, ret>>

\* The start of the script, with f as analyst.csv.
Fresh(f) ==
  /\ file = f
  /\ stores = <<>>
  /\ analyst_map = <<>>
  /\ today = Day0
  /\ ticks = 0
  /\ pc = "load"
  /\ idx = 0
  /\ results_open = <<>>
  /\ results_close = <<>>
  /\ analyst_results = <<>>
  /\ found_any = FALSE
  /\ trace = <<>>
  /\ console = <<>>
  /\ csv_file = NoFile
  /\ latest_json = NoFile
  /\ archive_json = NoFile
  /\ call = NoCall
  /\ ret = NoRet

Init == \E f \in MainFiles : Fresh(f)

\* One step of the script.
Step ==
  \/ LoadAnalysts
  \/ FetchOpen
  \/ FetchClose
  \/ GroupAndSleep
  \/ Output
  \/ WriteSnapshot

Next == Step \/ Tick

Spec == Init /\ [][Next]_vars

(***************************************************************************)
(* The loading alone, on every file of AllFiles.                           *)
(***************************************************************************)
InitLoad == \E f \in AllFiles : Fresh(f)
NextLoad == LoadAnalysts
SpecLoad == InitLoad /\ [][NextLoad]_vars

(***************************************************************************)
(* is_recent and clean_summary called directly.                            *)
(***************************************************************************)
\* The script is not running; a helper is about to be called with c.
Calling(c) ==
  /\ file = MissingFile
  /\ stores = <<>>
  /\ analyst_map = <<>>
  /\ today = Day0
  /\ ticks = 0
  /\ pc = "call"
  /\ idx = 0
  /\ results_open = <<>>
  /\ results_close = <<>>
  /\ analyst_results = <<>>
  /\ found_any = FALSE
  /\ trace = <<>>
  /\ console = <<>>
  /\ csv_file = NoFile
  /\ latest_json = NoFile
  /\ archive_json = NoFile
  /\ call = c
  /\ ret = NoRet

TestDays == (Day0 - PubWindow - 1)..(Day0 + 1)
\* "Tue, 31 Nov 2026 12:00:00 GMT": no such day
BadDayStamp == <<"T", "u", "e", ",", " ", "3", "1">> \o RfcTail
NotDates == {None, <<>>, DateNotAvailable, S_soon, BadDayStamp}
PublishedInputs == NotDates \cup {Rfc822(d) : d \in TestDays}
                            \cup {StrfDate(d) : d \in TestDays}

InitRecent ==
  \E p \in PublishedInputs, c \in TestDays :
    Calling([fn |-> "is_recent", published_str |-> p, cutoff_date |-> c])

CallIsRecent ==
  /\ pc = "call"
  /\ call.fn = "is_recent"
  /\ ret' = is_recent(call.published_str, call.cutoff_date)
  /\ pc' = "returned"
  /\ UNCHANGED <<file, stores, analyst_map, today, ticks, idx, results_open,
                 results_close, analyst_results, found_any, trace, console,
                 csv_file, latest_json, archive_json, call>>

NextRecent == CallIsRecent
SpecRecent == InitRecent /\ [][NextRecent]_vars

RECURSIVE Concat(_)
Concat(ss) == IF ss = <<>> THEN <<>> ELSE Head(ss) \o Concat(Tail(ss))

Fragments ==
  {<<"&">> \o E_amp \o <<";">>, <<"&">> \o E_lt \o <<";">>,
   <<"&">> \o E_gt \o <<";">>, <<"&">> \o E_nbsp \o <<";">>,
   <<"<", "b", ">">>, <<"x">>, <<" ">>, <<"&">>, E_lt \o <<";">>}

RawSummaries ==
  {None} \cup {Concat(fs) : fs \in UNION {[1..n -> Fragments] :
                                           n \in 0..MaxFrags}}

InitClean ==
  \E raw \in RawSummaries : Calling([fn |-> "clean_summary", summary |-> raw])

CallCleanSummary ==
  /\ pc = "call"
  /\ call.fn = "clean_summary"
  /\ ret' = Returned(clean_summary(call.summary))
  /\ pc' = "returned"
  /\ UNCHANGED <<file, stores, analyst_map, today, ticks, idx, results_open,
                 results_close, analyst_results, found_any, trace, console,
                 csv_file, latest_json, archive_json, call>>

NextClean == CallCleanSummary
SpecClean == InitClean /\ [][NextClean]_vars

(***************************************************************************)
(* Properties.                                                             *)
(***************************************************************************)
\* Some fetch of the run returned an entry, that is, an entry passed the
\* recency filter.
AnyPassed == \E k \in DOMAIN trace : trace[k].ev = "fetch" /\ trace[k].n > 0

RECURSIVE CountEntries(_)
CountEntries(d) ==
  IF d = <<>> THEN 0 ELSE Len(Head(d).items) + CountEntries(Tail(d))

PubDay(e) == date_parse(e.Published).value
Written(f) == f # NoFile
PastLoop == pc \in {"output", "json", "done"}

(* C1: once the store loop is over the snapshot step always runs: the     *)
(* script cannot stop between the loop and the snapshot, and when it has  *)
(* ended, latest_news.json and latest_news_<date>.json are both written,  *)
(* with the same content, whose last_updated is the date of the run (the  *)
(* date read when the snapshot is built, which is the "Run date" printed  *)
(* at the start unless midnight passed in between); with no entry found,  *)
(* data is the empty mapping.                                             *)
C1_SnapshotAlwaysWritten ==
  /\ pc \in {"output", "json"} => ENABLED Step
  /\ pc # "done" => ~Written(latest_json) /\ ~Written(archive_json)
  /\ pc = "done" =>
       /\ Written(latest_json) /\ Written(archive_json)
       /\ latest_json.name = LatestName
       /\ archive_json.name = ArchiveName(today)
       /\ latest_json.content = archive_json.content
       /\ latest_json.content.last_updated = StrfDate(today)
       /\ ticks = 0 => latest_json.content.last_updated = console[1].text
       /\ ~AnyPassed => latest_json.content.data = <<>>

C1_Witness ==
  /\ pc = "done"
  /\ Len(stores) > 0
  /\ ~AnyPassed
  /\ Written(latest_json) /\ Written(archive_json)
  /\ latest_json.content.data = <<>>

(* C2: the CSV file is written if and only if some entry passed the       *)
(* recency filter, and it then holds one row per entry of the grouped     *)
(* result: as many rows as Snapshot.data has entries, and each of them.   *)
C2_CsvIffFound ==
  /\ ~PastLoop \/ pc = "output" => ~Written(csv_file)
  /\ pc \in {"json", "done"} =>
       /\ Written(csv_file) <=> AnyPassed
       /\ Written(csv_file) =>
            /\ csv_file.name.prefix = "store_open_close_news_"
            /\ Len(csv_file.rows) = CountEntries(analyst_results)
            /\ \A i \in DOMAIN analyst_results :
                 \A j \in DOMAIN analyst_results[i].items :
                   \E r \in DOMAIN csv_file.rows :
                     csv_file.rows[r] = analyst_results[i].items[j]
  /\ pc = "done" /\ Written(csv_file) =>
       Len(csv_file.rows) = CountEntries(latest_json.content.data)

C2_Witness ==
  /\ pc = "done"
  /\ Written(csv_file)
  /\ Len(csv_file.rows) >= 3
  /\ Len(latest_json.content.data) = 2

\* Every entry of the grouped result d is filed under its own analyst, who
\* is the one the mapping gives for its store, "Unassigned" for a store the
\* mapping does not hold.
GroupedByLookup(d) ==
  \A i \in DOMAIN d : \A j \in DOMAIN d[i].items :
    LET e == d[i].items[j] IN
    /\ e.Analyst = d[i].key
    /\ \E k \in DOMAIN stores : stores[k] = e.Store
    /\ e.Store \notin DOMAIN analyst_map => e.Analyst = Unassigned
    /\ e.Store \in DOMAIN analyst_map => e.Analyst = analyst_map[e.Store]

C6_RecencyDescending ==
  \A i \in DOMAIN analyst_results :
    LET items == analyst_results[i].items IN
    \A j \in DOMAIN items : \A k \in DOMAIN items :
      (j < k /\ items[j].Store = items[k].Store) =>
        /\ ~(items[j].Type = "Closing" /\ items[k].Type = "Opening")
        /\ items[j].Type = items[k].Type => PubDay(items[j]) >= PubDay(items[k])

\* The analysts named along a sequence never step down.
Ascending(names) ==
  \A j \in DOMAIN names : \A k \in DOMAIN names :
    j < k => ~StrLess(names[k], names[j])

ConsoleAnalysts ==
  LET blocks == SelectSeq(console, LAMBDA l : l.kind = "analyst") IN
  [i \in DOMAIN blocks |-> blocks[i].text]

(* C7: the console report, the JSON data mapping and the CSV rows all     *)
(* list the analysts' entries in ascending order of analyst name.         *)
C7_AscendingEverywhere ==
  pc = "done" =>
    /\ Ascending(ConsoleAnalysts)
    /\ Ascending([i \in DOMAIN latest_json.content.data |->
                    latest_json.content.data[i].key])
    /\ Written(csv_file) =>
         Ascending([r \in DOMAIN csv_file.rows |-> csv_file.rows[r].Analyst])

IsFetch(e, store, keywords) ==
  e.ev = "fetch" /\ e.store = store /\ e.keywords = keywords

(* C8: for each store in turn the Opening fetch, the Closing fetch and    *)
(* then one delay: 2N fetches and N delays over a run of N stores, a      *)
(* delay between the fetches of consecutive stores, none between the two  *)
(* fetches of one store.                                                  *)
C8_FetchFetchSleep ==
  /\ \A k \in DOMAIN trace :
       LET store == stores[(k + 2) \div 3] IN
       /\ k % 3 = 1 => IsFetch(trace[k], store, "base_keywords_open")
       /\ k % 3 = 2 => IsFetch(trace[k], store, "base_keywords_close")
       /\ k % 3 = 0 => trace[k].ev = "sleep"
  /\ pc = "open" => Len(trace) = 3 * (idx - 1)
  /\ pc = "close" => Len(trace) = 3 * (idx - 1) + 1
  /\ pc = "group" => Len(trace) = 3 * (idx - 1) + 2
  /\ PastLoop =>
       /\ Len(trace) = 3 * Len(stores)
       /\ Cardinality({k \in DOMAIN trace : trace[k].ev = "fetch"})
            = 2 * Len(stores)
       /\ Cardinality({k \in DOMAIN trace : trace[k].ev = "sleep"})
            = Len(stores)

C8_Witness ==
  /\ pc = "done"
  /\ Len(stores) = 2
  /\ Len(trace) = 6
  /\ trace[3].ev = "sleep" /\ trace[4].ev = "fetch"

(* C10: every entry of the written snapshot is recent with respect to the *)
(* snapshot's own date (published on or after last_updated minus 2 days), *)
(* and the date in the CSV file's name equals last_updated, also when the *)
(* date advances during the run.                                          *)
C10_SnapshotDatesAgree ==
  pc = "done" =>
    LET snapshot_day == date_parse(latest_json.content.last_updated).value IN
    /\ \A i \in DOMAIN latest_json.content.data :
         \A j \in DOMAIN latest_json.content.data[i].items :
           PubDay(latest_json.content.data[i].items[j])
             >= snapshot_day - CutoffDays
    /\ Written(csv_file) =>
         csv_file.name.date = latest_json.content.last_updated

(* C3: is_recent never raises and returns a boolean: true for a string   *)
(* that parses to a date on or after the cutoff, false for one that       *)
(* parses to an earlier date, false for an empty or absent string, the    *)
(* sentinel "Date not available" and a string that does not parse.        *)
C3_IsRecent ==
  (pc = "returned" /\ call.fn = "is_recent") =>
    /\ ~ret.raised
    /\ ret.value \in BOOLEAN
    /\ \A d \in TestDays :
         call.published_str \in {Rfc822(d), StrfDate(d)} =>
           (ret.value <=> d >= call.cutoff_date)
    /\ call.published_str \in NotDates => ret.value = FALSE

C3_Witness ==
  /\ pc = "returned"
  /\ call.fn = "is_recent"
  /\ call.published_str = Rfc822(call.cutoff_date)
  /\ ret = Returned(TRUE)

\* s holds a <...> sequence, a match of _TAG_RE.
HasTag(s) ==
  \E i \in DOMAIN s : \E j \in DOMAIN s :
    /\ s[i] = "<" /\ s[j] = ">" /\ j >= i + 2
    /\ \A k \in (i + 1)..(j - 1) : s[k] # ">"

EntityCodes ==
  {<<"&">> \o n \o <<";">> : n \in {E_amp, E_lt, E_gt, E_nbsp}}

\* s holds a raw entity code.
HasEntity(s) == \E i \in DOMAIN s : \E e \in EntityCodes : StartsAt(s, i, e)

\* Single spaces between words, none at the ends.
WhitespaceNormal(s) ==
  /\ \A i \in DOMAIN s : IsSpace(s[i]) =>
       /\ s[i] = " "
       /\ i # 1 /\ i # Len(s)
       /\ ~IsSpace(s[i + 1])

\* Every '&' of s begins the entity code of a character other than '&'.
EveryAmpCodesAnotherChar(s) ==
  \A i \in DOMAIN s : s[i] = "&" =>
    \E e \in EntityCodes \ {<<"&">> \o E_amp \o <<";">>} : StartsAt(s, i, e)

CleanReturned == pc = "returned" /\ call.fn = "clean_summary"

\* What C4 states apart from the absence of entity codes.
CleanShape ==
  /\ ~ret.raised
  /\ ret.value # <<>> /\ ret.value # None
  /\ ~HasTag(ret.value)
  /\ WhitespaceNormal(ret.value)
  /\ call.summary \in {None, <<>>} => ret.value = NoSummary
  /\ (call.summary # None
        /\ JoinSplit(StripTags(unescape(call.summary))) = <<>>)
       => ret.value = NoSummary

(* C4 as stated: clean_summary(raw) is a non-empty string with no <...>   *)
(* sequence and no raw entity code, whitespace collapsed and trimmed, and *)
(* "No summary" for an empty, absent or empty-after-sanitizing raw.       *)
C4_NoEntityEver ==
  CleanReturned => CleanShape /\ ~HasEntity(ret.value)

(* C4 as amended: the same, the result being free of entity codes when    *)
(* every '&' of raw begins the entity code of a character other than '&'. *)
C4_CleanSummary ==
  CleanReturned =>
    /\ CleanShape
    /\ EveryAmpCodesAnotherChar(call.summary) => ~HasEntity(ret.value)

C4_Witness ==
  /\ CleanReturned
  /\ HasTag(call.summary)
  /\ HasEntity(call.summary)
  /\ EveryAmpCodesAnotherChar(call.summary)
  /\ ret.value # NoSummary

StoreBlank(row) == Strip(row.Store) = <<>>
StoreFilled(row) == ~StoreBlank(row)

\* The analyst a row assigns: "Unassigned" when its Analyst cell is blank.
AssignedBy(row) ==
  IF Strip(row.Analyst) = <<>> THEN Unassigned ELSE Strip(row.Analyst)

(* C9: after loading, every store name is non-empty after trimming and    *)
(* has an analyst, "Unassigned" when none is assigned; the rows whose     *)
(* Store is empty after trimming are dropped; a missing file, or one      *)
(* without the Store / Analyst columns, gives the default list with       *)
(* "Unassigned" for all.                                                  *)
C9_LoadedRecords ==
  pc \in {"open", "output"} =>
    /\ \A i \in DOMAIN stores : Strip(stores[i]) # <<>>
    /\ DOMAIN analyst_map = Range(stores)
    /\ IF file.kind = "table" /\ file.hasStore /\ file.hasAnalyst
       THEN LET kept == SelectSeq(file.rows, StoreFilled) IN
            /\ stores = [i \in DOMAIN kept |-> Strip(kept[i].Store)]
            /\ \A i \in DOMAIN kept :
                 LET last == Max({j \in DOMAIN kept :
                                    Strip(kept[j].Store) = Strip(kept[i].Store)})
                 IN analyst_map[Strip(kept[i].Store)] = AssignedBy(kept[last])
       ELSE /\ stores = default_stores
            /\ \A i \in DOMAIN stores : analyst_map[stores[i]] = Unassigned

====
